---- MODULE Spec2Model ----
(***************************************************************************)
(* Model of the two utilities of the repository:                           *)
(*   src/find_pages.py       the Slice Selector (a module-level script)    *)
(*   src/generate_status.py  the Status Reporter (get_pages, analyze_page, *)
(*                           main)                                         *)
(* Strings are tuples of one-character strings, so that str.endswith, the  *)
(* regular expressions and the f-strings are computed, not assumed.        *)
(***************************************************************************)
EXTENDS Integers, Sequences, FiniteSets, TLC

(***************************************************************************)
(* Bounds of the model.                                                    *)
(***************************************************************************)
\* Largest number of nodes of a navigation tree drawn in Init.
MaxNodes == 4
\* How many times get_pages is called on the same tree.
MaxCalls == 2

(***************************************************************************)
(* Navigation nodes, as yaml.safe_load builds them: list, dict (insertion  *)
(* ordered, distinct keys), str, and scalars that are none of these.       *)
(* Every node is a record of the same shape:                               *)
(*   kind  "list" | "dict" | "str" | "int" | "bool"                        *)
(*   val   the characters of a str                                         *)
(*   keys  the keys of a dict, in declaration order                        *)
(*   items the elements of a list, or the values of a dict, in order       *)
(***************************************************************************)
StrNode(s) == [kind |-> "str", val |-> s, keys |-> <<>>, items |-> <<>>]
ScalarNode(k) == [kind |-> k, val |-> <<>>, keys |-> <<>>, items |-> <<>>]
ListNode(xs) == [kind |-> "list", val |-> <<>>, keys |-> <<>>, items |-> xs]
DictNode(ks, xs) == [kind |-> "dict", val |-> <<>>, keys |-> ks, items |-> xs]

\* The leaf strings of the drawn trees: two pages, and a string that holds
\* ".md" but does not end with it.
LeafStrings ==
  { <<"a", ".", "m", "d">>,
    <<"b", ".", "m", "d">>,
    <<"e", ".", "m", "d", "x">> }

\* Group labels; the first one ends with ".md" and is no leaf string.
KeyStrings ==
  { <<"K", ".", "m", "d">>, <<"L">> }

ScalarKinds == {"int", "bool"}

Leaves == {StrNode(s) : s \in LeafStrings} \cup {ScalarNode(k) : k \in ScalarKinds}

\* Sequences of distinct keys of length n.
KeySeqs(n) ==
  {ks \in [1..n -> KeyStrings] : \A i, j \in 1..n : ks[i] = ks[j] => i = j}

RECURSIVE TreesOfSize(_), ForestsOfSize(_)
\* The sequences of trees with m nodes in all.
ForestsOfSize(m) ==
  IF m = 0 THEN {<<>>}
  ELSE UNION {{<<t>> \o f : t \in TreesOfSize(k), f \in ForestsOfSize(m - k)} : k \in 1..m}

\* The trees with exactly n nodes.
TreesOfSize(n) ==
  (IF n = 1 THEN Leaves ELSE {})
    \cup {ListNode(f) : f \in ForestsOfSize(n - 1)}
    \cup UNION {{DictNode(ks, f) : ks \in KeySeqs(Len(f))} : f \in ForestsOfSize(n - 1)}

Trees == UNION {TreesOfSize(n) : n \in 1..MaxNodes}

\* Strings at the edge of the suffix test: the bare suffix, strings shorter
\* than it, another extension, the suffix in capitals.
EdgeStrings ==
  { <<".", "m", "d">>, <<"m", "d">>, <<>>, <<"c", ".", "t", "x", "t">>,
    <<"a", ".", "M", "D">> }

\* Each of them alone, as an element of a sequence, and as a group's value
\* beside a page.
EdgeTrees ==
  UNION {{StrNode(s),
          ListNode(<<StrNode(s)>>),
          DictNode(<<<<"K", ".", "m", "d">>, <<"L">>>>,
                   <<StrNode(s), StrNode(<<"a", ".", "m", "d">>)>>)} : s \in EdgeStrings}

(***************************************************************************)
(* str.endswith                                                            *)
(***************************************************************************)
MdSuffix == <<".", "m", "d">>

\* Mutant: the suffix is looked for anywhere in s (`suffix in s`).
endswith_anywhere(s, suffix) ==
  \E k \in 1..(Len(s) - Len(suffix) + 1) : SubSeq(s, k, k + Len(suffix) - 1) = suffix

endswith(s, suffix) ==
  /\ Len(s) >= Len(suffix)
  /\ SubSeq(s, Len(s) - Len(suffix) + 1, Len(s)) = suffix

(***************************************************************************)
(* find_pages.get_pages (Variant A): recurses into every dict value.       *)
(* A for loop that extends pages, empty at first, by get_pages(x) for each *)
(* x in turn leaves the results joined in the order of the xs. The join is *)
(* evaluated by halves, which keeps the evaluation of a long list shallow. *)
(***************************************************************************)
RECURSIVE find_pages_get_pages(_), find_pages_extend(_, _, _),
          find_pages_extend_front(_, _, _)

\* Mutant: each result is put in front of the pages found so far.
find_pages_extend_front(xs, lo, hi) ==
  IF lo > hi THEN <<>>
  ELSE IF lo = hi THEN find_pages_get_pages(xs[lo])
  ELSE LET mid == (lo + hi) \div 2
       IN find_pages_extend_front(xs, mid + 1, hi) \o find_pages_extend_front(xs, lo, mid)

\* Lines 10-11 and 13-14: pages.extend(get_pages(x)) for x = xs[lo] .. xs[hi].
find_pages_extend(xs, lo, hi) ==
  IF lo > hi THEN <<>>
  ELSE IF lo = hi THEN find_pages_get_pages(xs[lo])
  ELSE LET mid == (lo + hi) \div 2
       IN find_pages_extend(xs, lo, mid) \o find_pages_extend(xs, mid + 1, hi)

find_pages_get_pages(nav) ==
  IF nav.kind = "list" THEN find_pages_extend(nav.items, 1, Len(nav.items))
  ELSE IF nav.kind = "dict" THEN find_pages_extend(nav.items, 1, Len(nav.items))
  ELSE IF nav.kind = "str" THEN
    IF endswith(nav.val, MdSuffix) THEN <<nav.val>> ELSE <<>>
  ELSE <<>>

(***************************************************************************)
(* generate_status.get_pages (Variant B): tests a str dict value in place. *)
(***************************************************************************)
RECURSIVE generate_status_get_pages(_), generate_status_list_loop(_, _, _),
          generate_status_dict_loop(_, _, _)

\* Mutant: a str value of a group is appended without the suffix test.
generate_status_dict_value_untested(value) ==
  IF value.kind = "str" THEN <<value.val>>
  ELSE generate_status_get_pages(value)

\* Lines 14-18: what one value of a group adds to pages.
generate_status_dict_value(value) ==
  IF value.kind = "str" THEN
    IF endswith(value.val, MdSuffix) THEN <<value.val>> ELSE <<>>
  ELSE generate_status_get_pages(value)

\* Lines 10-11, for x = xs[lo] .. xs[hi].
generate_status_list_loop(xs, lo, hi) ==
  IF lo > hi THEN <<>>
  ELSE IF lo = hi THEN generate_status_get_pages(xs[lo])
  ELSE LET mid == (lo + hi) \div 2
       IN generate_status_list_loop(xs, lo, mid)
            \o generate_status_list_loop(xs, mid + 1, hi)

\* Lines 13-18, for value = xs[lo] .. xs[hi].
generate_status_dict_loop(xs, lo, hi) ==
  IF lo > hi THEN <<>>
  ELSE IF lo = hi THEN generate_status_dict_value(xs[lo])
  ELSE LET mid == (lo + hi) \div 2
       IN generate_status_dict_loop(xs, lo, mid)
            \o generate_status_dict_loop(xs, mid + 1, hi)

generate_status_get_pages(nav) ==
  IF nav.kind = "list" THEN generate_status_list_loop(nav.items, 1, Len(nav.items))
  ELSE IF nav.kind = "dict" THEN generate_status_dict_loop(nav.items, 1, Len(nav.items))
  ELSE IF nav.kind = "str" THEN
    IF endswith(nav.val, MdSuffix) THEN <<nav.val>> ELSE <<>>
  ELSE <<>>

(***************************************************************************)
(* Strings of the two scripts.                                             *)
(***************************************************************************)
DigitChars == <<"0", "1", "2", "3", "4", "5", "6", "7", "8", "9">>

\* str(n) of a non-negative int, as the f-strings format it.
RECURSIVE str_int(_)
str_int(n) ==
  IF n < 10 THEN <<DigitChars[n + 1]>>
  ELSE Append(str_int(n \div 10), DigitChars[(n % 10) + 1])

DocsDir == <<"d", "o", "c", "s">>

\* os.path.join(a, b) of posixpath: an absolute b replaces a.
os_path_join(a, b) ==
  IF Len(b) > 0 /\ b[1] = "/" THEN b
  ELSE IF Len(a) = 0 \/ a[Len(a)] = "/" THEN a \o b
  ELSE a \o <<"/">> \o b

\* Mutant: the line is written without its newline.
fill_line_no_newline(page_path) == DocsDir \o <<"/">> \o page_path

\* Line 27 of find_pages.py: docs/, the page path, a newline.
fill_line(page_path) == DocsDir \o <<"/">> \o page_path \o <<"\n">>

(***************************************************************************)
(* The slice bounds of find_pages.py. int(total * 0.11) and                *)
(* int(total * 0.15) are computed in binary floating point; for every      *)
(* total up to 2,000,000 the result equals the exact quotient below, which *)
(* is what the model computes.                                             *)
(***************************************************************************)
StartPercent == 11
EndPercent == 15

slice_start(total_count) == (total_count * StartPercent) \div 100

slice_end(total_count) == (total_count * EndPercent) \div 100

(***************************************************************************)
(* Page files. A file under docs/ is described by how its text is built:   *)
(*   exists    os.path.exists                                              *)
(*   raises    io.open or f.read raises (a directory, no permission,       *)
(*             bytes that are not UTF-8)                                   *)
(*   words     the number of words of its first line                       *)
(*   sep       the character between two words                             *)
(*   fences    the number of backtick lines, each of `ticks` backticks     *)
(*   headers   the number of header lines, each `prefix` and a space       *)
(***************************************************************************)
WordsThreshold == 100
LongThreshold == 300
MinHeaders == 2
HeaderMinLevel == 2
HeaderMaxLevel == 4
FenceLen == 3

\* The character U+0060, which a string of this language cannot hold.
Backtick == "BACKTICK"

Repeat(s, n) == [i \in 1..(n * Len(s)) |-> s[((i - 1) % Len(s)) + 1]]

\* Words "w_" and "9" in turn, each followed by the separator.
WordsLine(n, sep) ==
  [i \in 1..(3 * n) |->
     LET j == ((i - 1) \div 3) + 1
         o == ((i - 1) % 3) + 1
     IN IF j % 2 = 1 THEN <<"w", "_", sep>>[o] ELSE <<"9", sep, sep>>[o]]
    \o <<"\n">>

\* f.read() of a readable file.
PageText(file) ==
  WordsLine(file.words, file.sep)
    \o Repeat(Repeat(<<Backtick>>, file.ticks) \o <<"\n">>, file.fences)
    \o Repeat(file.prefix \o <<" ", "\n">>, file.headers)

\* The word characters of the regular expression, among those of the page texts.
WordChars ==
  {"_", "0", "1", "2", "3", "4", "5", "6", "7", "8", "9",
   "a", "b", "c", "d", "e", "f", "g", "h", "i", "j", "k", "l", "m",
   "n", "o", "p", "q", "r", "s", "t", "u", "v", "w", "x", "y", "z",
   "A", "B", "C", "D", "E", "F", "G", "H", "I", "J", "K", "L", "M",
   "N", "O", "P", "Q", "R", "S", "T", "U", "V", "W", "X", "Y", "Z"}

\* Lines 34-35, the number of matches of one or more word characters: one
\* match per maximal run of word characters, counted by where each run starts.
word_count(content) ==
  Cardinality({i \in 1..Len(content) :
                 /\ content[i] \in WordChars
                 /\ (i = 1 \/ content[i - 1] \notin WordChars)})

\* Line 38: the fence marker occurs in content.
has_code(content) ==
  \E i \in 1..(Len(content) - FenceLen + 1) :
    \A j \in 0..(FenceLen - 1) : content[i + j] = Backtick

\* Line 41, the matches of the header expression in MULTILINE mode: the line
\* starts followed by 2 to 4 hash signs and a space. A match holds no newline,
\* so no two overlap.
headers(content) ==
  {i \in 1..Len(content) :
     /\ (i = 1 \/ content[i - 1] = "\n")
     /\ \E k \in HeaderMinLevel..HeaderMaxLevel :
          /\ i + k <= Len(content)
          /\ \A j \in 0..(k - 1) : content[i + j] = "#"
          /\ content[i + k] = " "}

has_structure(content) == Cardinality(headers(content)) >= MinHeaders

\* Mutant: the thresholds are inclusive.
is_completed_inclusive(content) ==
  \/ (word_count(content) >= WordsThreshold
        /\ (has_code(content) \/ has_structure(content)))
  \/ word_count(content) >= LongThreshold

\* Line 47.
is_completed(content) ==
  \/ (word_count(content) > WordsThreshold
        /\ (has_code(content) \/ has_structure(content)))
  \/ word_count(content) > LongThreshold

\* An exception: its class, and the characters its text quotes from the
\* input (a path, a character of mkdocs.yml); the rest of the text is ASCII.
Exception(kind, quoted) == [kind |-> kind, quoted |-> quoted]
NoException == Exception("none", <<>>)

\* What the scripts print: a fixed text, the value formatted into it, and
\* the exception whose text is formatted into it.
Message(text, arg, err) == [text |-> text, arg |-> arg, err |-> err]

\* A character outside ASCII, as a page path may hold (e with an acute
\* accent); it stands here under this name.
EAcute == "EACUTE"
NonAsciiChars == {EAcute}

\* Whether sys.stdout can encode the message: an ASCII stdout encodes no
\* character outside ASCII. The fixed texts are ASCII; the value formatted
\* in is a page path or a number; the text of the exception holds what it
\* quotes from the input.
encodable(msg, ascii_out) ==
  \/ ~ascii_out
  \/ /\ \A k \in 1..Len(msg.arg) : msg.arg[k] \notin NonAsciiChars
     /\ \A k \in 1..Len(msg.err.quoted) : msg.err.quoted[k] \notin NonAsciiChars

\* print(msg) with what was printed before: the message is encoded whole
\* before anything is written, so a message that cannot be encoded prints
\* nothing and raises.
print(out, msg, ascii_out) ==
  IF encodable(msg, ascii_out)
  THEN [out |-> Append(out, msg), raised |-> "none"]
  ELSE [out |-> out, raised |-> "UnicodeEncodeError"]

\* Lines 29-49 for a file that reads: content = f.read(), then the verdict.
\* content is bound once, to the text read.
read_and_judge(file) ==
  CHOOSE v \in {is_completed(content) : content \in {PageText(file)}} : TRUE

\* analyze_page(filepath), with the file that filepath names and the
\* encoding of stdout: the value returned, what it prints, and the exception
\* that leaves it ("none" when it returns). The print of line 51 stands in
\* the except handler, outside any try: what it raises leaves the function.
analyze_page(file, filepath, ascii_out) ==
  IF ~file.exists THEN [ret |-> FALSE, out |-> <<>>, raised |-> "none"]
  ELSE IF file.raises THEN
    LET p == print(<<>>, Message("Error reading", filepath, Exception("OSError", filepath)), ascii_out)
    IN [ret |-> FALSE, out |-> p.out, raised |-> p.raised]
  ELSE [ret |-> read_and_judge(file), out |-> <<>>, raised |-> "none"]

(***************************************************************************)
(* Inputs of the runs.                                                     *)
(***************************************************************************)
\* Largest number of pages of the flat navigation of a Slice Selector run.
MaxPages == 101
\* Largest number of pages of the navigation of a Status Reporter run.
MaxReportPages == 3
\* How far around each threshold the word counts of the drawn pages go.
Margin == 2
\* Largest number of backtick lines and of header lines of a drawn page.
MaxFences == 1
MaxHeaders == 2

\* The name of page k: p, the digits of k, .md
PageName(k) == <<"p">> \o str_int(k) \o MdSuffix

\* The name of page k of a navigation whose titles are accented.
AccentedName(k) == <<EAcute>> \o str_int(k) \o MdSuffix

\* A navigation as mkdocs declares it: a list of one-entry groups, title to
\* page, for pages 0 .. n-1.
FlatNav(n) == ListNode([k \in 1..n |-> DictNode(<<<<"L">>>>, <<StrNode(PageName(k - 1))>>)])

\* The same with accented names.
AccentedNav(n) ==
  ListNode([k \in 1..n |-> DictNode(<<<<"L">>>>, <<StrNode(AccentedName(k - 1))>>)])

\* What loading mkdocs.yml and reading its nav key comes to:
\*   OSError    io.open raises         YAMLError  yaml.safe_load raises
\*   KeyError   a mapping without nav  TypeError  not a mapping (an empty file)
\*   ok         a mapping with nav
\* and the characters of mkdocs.yml that the text of the error quotes: a
\* YAML error names the character, alias or tag it stopped at.
LoadErrors == {"OSError", "YAMLError"}
NavErrors == {"KeyError", "TypeError"}

Config(kind, tree, quoted) == [kind |-> kind, nav |-> tree, quoted |-> quoted]

FailingConfigs ==
  {Config(k, ListNode(<<>>), <<>>) : k \in LoadErrors \cup NavErrors}
    \cup {Config("YAMLError", ListNode(<<>>), <<EAcute>>)}

MissingFile ==
  [exists |-> FALSE, raises |-> FALSE, words |-> 0, sep |-> " ", fences |-> 0,
   ticks |-> FenceLen, headers |-> 0, prefix |-> <<"#", "#">>]

UnreadableFile == [MissingFile EXCEPT !.exists = TRUE, !.raises = TRUE]

TextFile(words, sep, fences, ticks, hdrs, prefix) ==
  [exists |-> TRUE, raises |-> FALSE, words |-> words, sep |-> sep,
   fences |-> fences, ticks |-> ticks, headers |-> hdrs, prefix |-> prefix]

\* Word counts: none, and those around the two thresholds.
WordCounts ==
  {0} \cup ((WordsThreshold - Margin)..(WordsThreshold + Margin))
      \cup ((LongThreshold - Margin)..(LongThreshold + Margin))

\* Header prefixes: levels 1 to 5, and a level 2 header behind a space.
HeaderPrefixes ==
  {Repeat(<<"#">>, n) : n \in (HeaderMinLevel - 1)..(HeaderMaxLevel + 1)}
    \cup {<<" ", "#", "#">>}

ValidPrefixes == {Repeat(<<"#">>, n) : n \in HeaderMinLevel..HeaderMaxLevel}

ClassifyFiles ==
  {MissingFile, UnreadableFile}
    \cup {TextFile(w, sp, f, t, h, p) :
            w \in WordCounts, sp \in {" ", "-"}, f \in 0..MaxFences,
            t \in {FenceLen - 1, FenceLen}, h \in 0..MaxHeaders, p \in HeaderPrefixes}

\* The files of a Status Reporter run: missing, unreadable, pending and
\* completed.
ReportFiles ==
  {MissingFile, UnreadableFile,
   TextFile(WordsThreshold, " ", 1, FenceLen, 0, <<"#", "#">>),
   TextFile(WordsThreshold + 1, " ", 1, FenceLen, 0, <<"#", "#">>)}

NoFile == [exists |-> FALSE, content |-> <<>>]

\* A pages_status.json left by an earlier run.
OldStatusFile ==
  [exists |-> TRUE,
   content |-> <<[id |-> 0, path |-> <<"o", "l", "d", ".", "m", "d">>,
                  completed |-> TRUE, status |-> "completed"]>>]

VARIABLES
  nav, resA, resB,                 \* a tree and the results of get_pages on it
  page, verdict,                   \* a page file and the result of analyze_page
  config, pc, exc, stdout,         \* a run: mkdocs.yml, position, exception, output
  all_pages, i,                    \* all_pages and the loop index of either script
  total, start, end, pages_to_fill,                 \* find_pages.py
  docs, writable, ascii_stdout,                     \* generate_status.py
  status_db, pages_status,
  classified, writes               \* calls of analyze_page, opens of the report

vars ==
  <<nav, resA, resB, page, verdict, config, pc, exc, stdout, all_pages, i,
    total, start, end, pages_to_fill, docs, writable, ascii_stdout, status_db, pages_status,
    classified, writes>>

flattenVars == <<nav, resA, resB>>
classifyVars == <<page, verdict>>
runVars == <<config, pc, exc, stdout, all_pages, i>>
sliceVars == <<total, start, end, pages_to_fill>>
reportVars == <<docs, writable, ascii_stdout, status_db, pages_status, classified, writes>>

\* The variables a specification does not use stay at these values.
FlattenIdle == nav = ListNode(<<>>) /\ resA = <<>> /\ resB = <<>>
ClassifyIdle == page = MissingFile /\ verdict = <<>>
RunIdle ==
  /\ config = Config("ok", ListNode(<<>>), <<>>)
  /\ pc = "idle" /\ exc = NoException /\ stdout = <<>> /\ all_pages = <<>> /\ i = 0
SliceIdle == total = 0 /\ start = 0 /\ end = 0 /\ pages_to_fill = NoFile
ReportIdle ==
  /\ docs = <<>> /\ writable = TRUE /\ ascii_stdout = FALSE
  /\ status_db = <<>> /\ pages_status = NoFile
  /\ classified = 0 /\ writes = 0

(***************************************************************************)
(* get_pages, called on a tree.                                            *)
(***************************************************************************)
InitFlatten ==
  /\ nav \in Trees \cup EdgeTrees
  /\ resA = <<>>
  /\ resB = <<>>
  /\ ClassifyIdle /\ RunIdle /\ SliceIdle /\ ReportIdle

CallA ==
  /\ Len(resA) < MaxCalls
  /\ resA' = Append(resA, find_pages_get_pages(nav))
  /\ UNCHANGED <<nav, resB, classifyVars, runVars, sliceVars, reportVars>>

CallB ==
  /\ Len(resB) < MaxCalls
  /\ resB' = Append(resB, generate_status_get_pages(nav))
  /\ UNCHANGED <<nav, resA, classifyVars, runVars, sliceVars, reportVars>>

NextFlatten == CallA \/ CallB

SpecFlatten == InitFlatten /\ [][NextFlatten]_vars

(***************************************************************************)
(* analyze_page, called on a page file.                                    *)
(***************************************************************************)
\* The path the page is given under; stdout is not ASCII here.
ClassifyPath == os_path_join(DocsDir, PageName(0))

InitClassify ==
  /\ page \in ClassifyFiles
  /\ verdict = <<>>
  /\ FlattenIdle /\ RunIdle /\ SliceIdle /\ ReportIdle

Classify ==
  /\ verdict = <<>>
  /\ verdict' = <<analyze_page(page, ClassifyPath, ascii_stdout)>>
  /\ UNCHANGED <<page, flattenVars, runVars, sliceVars, reportVars>>

NextClassify == Classify

SpecClassify == InitClassify /\ [][NextClassify]_vars

(***************************************************************************)
(* find_pages.py, the Slice Selector: a script with no error guard.        *)
(***************************************************************************)
InitSlice ==
  /\ config \in FailingConfigs
                  \cup {Config("ok", t, <<>>) : t \in Trees}
                  \cup {Config("ok", FlatNav(n), <<>>) : n \in 0..MaxPages}
  /\ pc = "load" /\ exc = NoException /\ stdout = <<>> /\ all_pages = <<>> /\ i = 0
  /\ SliceIdle /\ FlattenIdle /\ ClassifyIdle /\ ReportIdle

\* Lines 4-5.
FP_Load ==
  /\ pc = "load"
  /\ IF config.kind \in LoadErrors
     THEN pc' = "crashed" /\ exc' = Exception(config.kind, config.quoted)
     ELSE pc' = "flatten" /\ exc' = exc
  /\ UNCHANGED <<config, stdout, all_pages, i, sliceVars, flattenVars,
                 classifyVars, reportVars>>

\* Lines 20-23.
FP_Flatten ==
  /\ pc = "flatten"
  /\ IF config.kind \in NavErrors
     THEN /\ pc' = "crashed" /\ exc' = Exception(config.kind, config.quoted)
          /\ UNCHANGED <<all_pages, total, start, end>>
     ELSE LET pages == find_pages_get_pages(config.nav)
          IN /\ all_pages' = pages
             /\ total' = Len(pages)
             /\ start' = slice_start(Len(pages))
             /\ end' = slice_end(Len(pages))
             /\ pc' = "open" /\ exc' = exc
  /\ UNCHANGED <<config, stdout, i, pages_to_fill, flattenVars, classifyVars,
                 reportVars>>

\* Line 25, and the first value of range(start, end + 1).
FP_Open ==
  /\ pc = "open"
  /\ pages_to_fill' = [exists |-> TRUE, content |-> <<>>]
  /\ i' = start
  /\ pc' = "loop"
  /\ UNCHANGED <<config, exc, stdout, all_pages, total, start, end, flattenVars,
                 classifyVars, reportVars>>

\* Lines 26-27, one turn: all_pages[i] raises IndexError past the end.
FP_Write ==
  /\ pc = "loop"
  /\ i < end + 1
  /\ IF i >= Len(all_pages)
     THEN pc' = "crashed" /\ exc' = Exception("IndexError", <<>>) /\ UNCHANGED <<i, pages_to_fill>>
     ELSE /\ pages_to_fill' =
               [pages_to_fill EXCEPT
                  !.content = Append(@, fill_line(all_pages[i + 1]))]
          /\ i' = i + 1
          /\ UNCHANGED <<pc, exc>>
  /\ UNCHANGED <<config, stdout, all_pages, total, start, end, flattenVars,
                 classifyVars, reportVars>>

\* The range is used up: the file is closed and the script ends.
FP_Close ==
  /\ pc = "loop"
  /\ ~(i < end + 1)
  /\ pc' = "done"
  /\ UNCHANGED <<config, exc, stdout, all_pages, i, sliceVars, flattenVars,
                 classifyVars, reportVars>>

NextSlice == FP_Load \/ FP_Flatten \/ FP_Open \/ FP_Write \/ FP_Close

SpecSlice == InitSlice /\ [][NextSlice]_vars

(***************************************************************************)
(* generate_status.py, the Status Reporter: main().                        *)
(***************************************************************************)
\* The files under docs/ for the pages a navigation names.
DocsOf(tree) ==
  [{os_path_join(DocsDir, tree.items[k].items[1].val) : k \in 1..Len(tree.items)}
     -> ReportFiles]

InitReport ==
  /\ \/ /\ config \in FailingConfigs
        /\ docs \in DocsOf(FlatNav(1))
     \/ \E n \in 0..MaxReportPages :
          /\ config \in {Config("ok", FlatNav(n), <<>>), Config("ok", AccentedNav(n), <<>>)}
          /\ docs \in DocsOf(config.nav)
  /\ writable \in BOOLEAN
  /\ ascii_stdout \in BOOLEAN
  /\ pages_status \in {NoFile, OldStatusFile}
  /\ pc = "load" /\ exc = NoException /\ stdout = <<>> /\ all_pages = <<>> /\ i = 0
  /\ status_db = <<>> /\ classified = 0 /\ writes = 0
  /\ SliceIdle /\ FlattenIdle /\ ClassifyIdle

\* Mutant: ids are counted from 1.
StatusRecord_from_one(index, page_path, completed) ==
  [id |-> index + 1, path |-> page_path, completed |-> completed,
   status |-> IF completed THEN "completed" ELSE "pending"]

\* Lines 66-71.
StatusRecord(index, page_path, completed) ==
  [id |-> index, path |-> page_path, completed |-> completed,
   status |-> IF completed THEN "completed" ELSE "pending"]

\* Lines 56-57.
GS_Load ==
  /\ pc = "load"
  /\ IF config.kind \in LoadErrors
     THEN pc' = "except" /\ exc' = Exception(config.kind, config.quoted)
     ELSE pc' = "flatten" /\ exc' = exc
  /\ UNCHANGED <<config, stdout, all_pages, i, reportVars, sliceVars,
                 flattenVars, classifyVars>>

\* Lines 59-61.
GS_Flatten ==
  /\ pc = "flatten"
  /\ IF config.kind \in NavErrors
     THEN pc' = "except" /\ exc' = Exception(config.kind, config.quoted) /\ UNCHANGED <<all_pages, status_db>>
     ELSE /\ all_pages' = generate_status_get_pages(config.nav)
          /\ status_db' = <<>>
          /\ pc' = "loop" /\ exc' = exc
  /\ UNCHANGED <<config, stdout, i, docs, writable, ascii_stdout, pages_status, classified,
                 writes, sliceVars, flattenVars, classifyVars>>

\* Lines 62-71, one turn of the loop.
GS_Analyze ==
  /\ pc = "loop"
  /\ i < Len(all_pages)
  /\ LET page_path == all_pages[i + 1]
         full_path == os_path_join(DocsDir, page_path)
         r == analyze_page(docs[full_path], full_path, ascii_stdout)
     IN /\ classified' = classified + 1
        /\ stdout' = stdout \o r.out
        /\ IF r.raised # "none"
           THEN /\ pc' = "except" /\ exc' = Exception(r.raised, <<>>)
                /\ UNCHANGED <<i, status_db>>
           ELSE /\ status_db' = Append(status_db, StatusRecord(i, page_path, r.ret))
                /\ i' = i + 1
                /\ UNCHANGED <<pc, exc>>
  /\ UNCHANGED <<config, all_pages, docs, writable, ascii_stdout, pages_status, writes,
                 sliceVars, flattenVars, classifyVars>>

\* Lines 73-74: the loop is over; io.open for writing may raise, and then
\* leaves the file as it was.
GS_Write ==
  /\ pc = "loop"
  /\ ~(i < Len(all_pages))
  /\ IF writable
     THEN /\ pages_status' = [exists |-> TRUE, content |-> status_db]
          /\ writes' = writes + 1
          /\ pc' = "summary" /\ exc' = exc
     ELSE /\ pc' = "except" /\ exc' = Exception("OSError", <<>>)
          /\ UNCHANGED <<pages_status, writes>>
  /\ UNCHANGED <<config, stdout, all_pages, i, docs, writable, ascii_stdout, status_db,
                 classified, sliceVars, flattenVars, classifyVars>>

\* Line 76; what the print raises is caught at line 78.
GS_Summary ==
  /\ pc = "summary"
  /\ LET p == print(stdout, Message("Successfully generated status for",
                                    str_int(Len(status_db)), NoException),
                   ascii_stdout)
     IN /\ stdout' = p.out
        /\ IF p.raised = "none"
           THEN pc' = "done" /\ exc' = exc
           ELSE pc' = "except" /\ exc' = Exception(p.raised, <<>>)
  /\ UNCHANGED <<config, all_pages, i, reportVars, sliceVars, flattenVars,
                 classifyVars>>

\* Lines 78-79; what the print raises leaves main.
GS_Except ==
  /\ pc = "except"
  /\ LET p == print(stdout, Message("Failed to generate status", <<>>, exc), ascii_stdout)
     IN /\ stdout' = p.out
        /\ IF p.raised = "none"
           THEN pc' = "done" /\ exc' = exc
           ELSE pc' = "crashed" /\ exc' = Exception(p.raised, <<>>)
  /\ UNCHANGED <<config, all_pages, i, reportVars, sliceVars, flattenVars,
                 classifyVars>>

NextReport ==
  GS_Load \/ GS_Flatten \/ GS_Analyze \/ GS_Write \/ GS_Summary \/ GS_Except

SpecReport == InitReport /\ [][NextReport]_vars

\* The script runs to its end: no step of it waits on anything.
SpecReportFair == SpecReport /\ WF_vars(NextReport)

(***************************************************************************)
(* What the claims speak of, stated without the code's own definitions.    *)
(***************************************************************************)
Range(f) == {f[k] : k \in DOMAIN f}

Min(a, b) == IF a < b THEN a ELSE b

\* s is some prefix followed by .md
EndsWithMd(s) == \E k \in 0..Len(s) : s = SubSeq(s, 1, k) \o MdSuffix

\* The paths (child positions from the root) of the str nodes of a tree.
RECURSIVE StrPaths(_)
StrPaths(t) ==
  IF t.kind = "str" THEN {<<>>}
  ELSE UNION {{<<k>> \o p : p \in StrPaths(t.items[k])} : k \in 1..Len(t.items)}

RECURSIVE NodeAt(_, _)
NodeAt(t, p) == IF p = <<>> THEN t ELSE NodeAt(t.items[p[1]], Tail(p))

\* p comes before q in a pre-order, left-to-right traversal: at the first
\* position where they part, p goes to an earlier child.
Before(p, q) ==
  \E k \in 1..Min(Len(p), Len(q)) :
    /\ p[k] < q[k]
    /\ \A j \in 1..(k - 1) : p[j] = q[j]

PagePaths(t) == {p \in StrPaths(t) : EndsWithMd(NodeAt(t, p).val)}

\* pages lists the .md leaves of t in pre-order: the leaf at path p stands at
\* the position given by the number of .md leaves before it.
IsPreorderOf(pages, t) ==
  /\ Len(pages) = Cardinality(PagePaths(t))
  /\ \A p \in PagePaths(t) :
       pages[Cardinality({q \in PagePaths(t) : Before(q, p)}) + 1] = NodeAt(t, p).val

RECURSIVE NodesOf(_)
NodesOf(t) == {t} \cup UNION {NodesOf(t.items[k]) : k \in 1..Len(t.items)}

StringsOf(t) == {n.val : n \in {m \in NodesOf(t) : m.kind = "str"}}

KeysOf(t) == UNION {Range(n.keys) : n \in NodesOf(t)}

AllResults == Range(resA) \cup Range(resB)

\* C1: get_pages (either variant) returns the .md leaves in the order of a
\* pre-order, left-to-right traversal of the tree, and every call on the same
\* tree returns the same sequence.
C1_FlattenOrder ==
  /\ \A r \in AllResults : IsPreorderOf(r, nav)
  /\ \A j, k \in 1..Len(resA) : resA[j] = resA[k]
  /\ \A j, k \in 1..Len(resB) : resB[j] = resB[k]

\* Two pages under a nested sequence and a later sibling, flattened twice.
C1_Witness ==
  /\ nav = ListNode(<<ListNode(<<StrNode(<<"b", ".", "m", "d">>)>>),
                      StrNode(<<"a", ".", "m", "d">>)>>)
  /\ Len(resA) = MaxCalls
  /\ Len(resB) = MaxCalls
  /\ resA[1] = <<<<"b", ".", "m", "d">>, <<"a", ".", "m", "d">>>>

\* C2: a leaf string is in the output iff it ends with .md; a group label
\* that is no leaf is never in it; scalars add nothing and the result is a
\* sequence all the same; each .md leaf occurrence is there exactly once.
C2_LeafFilter ==
  \A r \in AllResults :
    /\ \A s \in StringsOf(nav) : (s \in Range(r)) <=> EndsWithMd(s)
    /\ \A key \in KeysOf(nav) \ StringsOf(nav) : key \notin Range(r)
    /\ Range(r) \subseteq StringsOf(nav)
    /\ Len(r) = Cardinality(PagePaths(nav))

\* A group whose label ends with .md and whose value is a page, followed by
\* a number: only the page is returned, by either variant.
C2_Witness ==
  /\ nav = ListNode(<<DictNode(<<<<"K", ".", "m", "d">>>>,
                               <<StrNode(<<"a", ".", "m", "d">>)>>),
                      ScalarNode("int")>>)
  /\ resA = <<<<<<"a", ".", "m", "d">>>>>>
  /\ resB = <<<<<<"a", ".", "m", "d">>>>>>

\* C9: on the same tree the two variants return the same sequence.
C9_VariantsAgree ==
  \A j \in 1..Len(resA), k \in 1..Len(resB) : resA[j] = resB[k]

\* A group with a page and a non-page string as direct values, flattened by
\* both variants.
C9_Witness ==
  /\ nav.kind = "dict"
  /\ \E j, k \in 1..Len(nav.items) :
       /\ nav.items[j].kind = "str" /\ EndsWithMd(nav.items[j].val)
       /\ nav.items[k].kind = "str" /\ ~EndsWithMd(nav.items[k].val)
  /\ Len(resA) > 0
  /\ Len(resB) > 0

(***************************************************************************)
(* The classifier.                                                         *)
(***************************************************************************)
\* What a drawn page was built with.
BuiltWithFence == page.fences >= 1 /\ page.ticks >= 3
BuiltWithStructure == page.headers >= 2 /\ page.prefix \in ValidPrefixes
Readable == page.exists /\ ~page.raises

\* C3: for a readable page, completed is (more than 100 words and (a fence
\* marker or at least 2 header lines)) or more than 300 words, the page's
\* words, markers and header lines being those it was written with.
C3_Classifier ==
  (verdict # <<>> /\ Readable) =>
    /\ verdict[1].raised = "none"
    /\ verdict[1].ret =
         ((page.words > 100 /\ (BuiltWithFence \/ BuiltWithStructure))
            \/ page.words > 300)

\* 101 words and a single fence marker, no header line: completed.
C3_Witness ==
  /\ page = TextFile(101, " ", 1, 3, 0, <<"#", "#">>)
  /\ verdict # <<>>
  /\ verdict[1].ret = TRUE

(***************************************************************************)
(* The Status Reporter.                                                    *)
(***************************************************************************)
\* The script is over: it came to its end, or an exception left it.
Ended == pc \in {"done", "crashed"}

\* The pages of the drawn navigation, as declared.
DeclaredPages == [k \in 1..Len(config.nav.items) |-> config.nav.items[k].items[1].val]

FileOfPage(k) == docs[DocsDir \o <<"/">> \o DeclaredPages[k]]

Failed(file) == ~file.exists \/ file.raises

IsReadError(m) == m.text = "Error reading"
IsSummary(m) == m.text = "Successfully generated status for"
IsFailure(m) == m.text = "Failed to generate status"

\* C4: the report holds one record per flattened page, in order; record k
\* has id k and the k-th path (ids from 0, no gap), and status "completed"
\* exactly when completed is true; so does status_db while it is built.
C4_ReportRecords ==
  /\ \A k \in 1..Len(status_db) :
       /\ status_db[k].id = k - 1
       /\ status_db[k].path = DeclaredPages[k]
       /\ status_db[k].completed \in BOOLEAN
       /\ (status_db[k].status = "completed") <=> status_db[k].completed
       /\ (status_db[k].status = "pending") <=> ~status_db[k].completed
  /\ writes > 0 =>
       /\ pages_status.exists
       /\ pages_status.content = status_db
       /\ Len(pages_status.content) = Len(DeclaredPages)

\* A report of three records, completed and pending, over an older report.
C4_Witness ==
  /\ pc = "done"
  /\ writes = 1
  /\ Len(pages_status.content) = 3
  /\ pages_status.content[1].status = "completed"
  /\ pages_status.content[3].status = "pending"
  /\ pages_status.content[3].id = 2

\* C7: when the configuration cannot be loaded (or has no nav), no step
\* touches pages_status.json or classifies a page, the error is caught and
\* no exception leaves the run, and the run ends having printed the failure
\* diagnostic with the error's text and nothing else.
C7_LoadFailure ==
  [][config.kind # "ok" =>
       /\ pages_status' = pages_status
       /\ classified' = classified
       /\ writes' = writes
       /\ pc' \in {"flatten", "except", "done"}
       /\ pc = "except" => pc' = "done"
       /\ pc' = "except" => exc' = Exception(config.kind, config.quoted)
       /\ pc' = "done" =>
            stdout' = <<Message("Failed to generate status", <<>>,
                                Exception(config.kind, config.quoted))>>]_vars

\* What the run does when the text of the YAML error cannot be printed: the
\* error was caught, the print of the handler raised, and the run is over
\* with nothing printed, the older report untouched.
LoadFailureCrashes ==
  /\ config = Config("YAMLError", ListNode(<<>>), <<EAcute>>)
  /\ ascii_stdout
  /\ pc = "crashed"
  /\ exc = Exception("UnicodeEncodeError", <<>>)
  /\ stdout = <<>>
  /\ pages_status = OldStatusFile
  /\ classified = 0 /\ writes = 0

\* A run that found no nav key has ended with the one diagnostic, the older
\* report untouched.
LoadFailureReported ==
  /\ config.kind = "KeyError"
  /\ pc = "done"
  /\ pages_status = OldStatusFile
  /\ stdout = <<Message("Failed to generate status", <<>>, Exception("KeyError", <<>>))>>

\* C8: analyze_page lets no exception out: a missing page gives false and
\* prints nothing, an unreadable one gives false and prints path and error.
\* So no exception of a page reaches main, the loop classifies every page,
\* and with the report writable all N records are written, the failed pages
\* pending.
C8_PageFailuresIsolated ==
  /\ config.kind = "ok" => exc.kind # "UnicodeEncodeError"
  /\ \A k \in 1..Len(status_db) :
       Failed(FileOfPage(k)) =>
         ~status_db[k].completed /\ status_db[k].status = "pending"
  /\ LET diag == SelectSeq(stdout, IsReadError)
         unreadable == {k \in 1..classified : FileOfPage(k).exists /\ FileOfPage(k).raises}
     IN /\ Len(diag) = Cardinality(unreadable)
        /\ \A m \in Range(diag) :
             /\ m.err.kind # "none"
             /\ \E k \in unreadable : m.arg = DocsDir \o <<"/">> \o DeclaredPages[k]
  /\ (config.kind = "ok" /\ pc \in {"except", "summary", "done"}) =>
       /\ classified = Len(DeclaredPages)
       /\ Len(status_db) = Len(DeclaredPages)
  /\ (config.kind = "ok" /\ writable /\ pc = "done") =>
       /\ pages_status.exists
       /\ Len(pages_status.content) = Len(DeclaredPages)

\* What the loop does when the diagnostic of an unreadable page cannot be
\* printed: the run has ended with the first page recorded, the second
\* page's exception caught in main and reported, the third page never
\* classified, and no report written.
PageFailureAbortsBatch ==
  /\ pc = "done"
  /\ config = Config("ok", AccentedNav(3), <<>>)
  /\ ascii_stdout /\ writable
  /\ FileOfPage(2) = UnreadableFile
  /\ exc.kind = "UnicodeEncodeError"
  /\ Len(status_db) = 1 /\ classified = 2
  /\ writes = 0 /\ pages_status = NoFile
  /\ stdout = <<Message("Failed to generate status", <<>>,
                         Exception("UnicodeEncodeError", <<>>))>>

\* C10: every run ends, with exactly one of the success summary and the
\* failure diagnostic printed; the report is written at most once, and only
\* after all pages are classified; the summary comes only after the write
\* and states the number of records written.
C10_RunShape ==
  /\ <>Ended
  /\ [](LET printed == Len(SelectSeq(stdout, IsSummary)) + Len(SelectSeq(stdout, IsFailure))
        IN /\ Ended => printed = 1
           /\ ~Ended => printed = 0
           /\ writes <= 1
           /\ writes = 1 => classified = Len(all_pages) /\ i = Len(all_pages)
           /\ \A m \in Range(SelectSeq(stdout, IsSummary)) :
                /\ writes = 1
                /\ pages_status.exists
                /\ m.arg = str_int(Len(pages_status.content)))

\* A run over two pages has printed its summary, the count 2, and no failure.
SummaryOfTwo ==
  /\ pc = "done"
  /\ writes = 1
  /\ Len(all_pages) = 2
  /\ stdout # <<>>
  /\ stdout[Len(stdout)] = Message("Successfully generated status for", <<"2">>, NoException)

(***************************************************************************)
(* The Slice Selector.                                                     *)
(***************************************************************************)
\* q is the floor of n * percent / 100.
IsFloorOfPercent(q, n, percent) == 100 * q <= n * percent /\ n * percent < 100 * (q + 1)

\* The lines for the pages at indices from .. to (0-based, both included).
LinesFor(from, to) ==
  [k \in 1..(to - from + 1) |->
     <<"d", "o", "c", "s", "/">> \o all_pages[from + k] \o <<"\n">>]

\* C5: for every page count, start and end are the floors of 11% and 15% of
\* it and the file ends up with the pages at indices start .. end, both
\* included: end - start + 1 lines, each docs/, the path and a newline.
C5_AsStated ==
  (config.kind = "ok" /\ Ended) =>
    /\ IsFloorOfPercent(start, total, 11)
    /\ IsFloorOfPercent(end, total, 15)
    /\ Len(pages_to_fill.content) = end - start + 1
    /\ pages_to_fill.content = LinesFor(start, end)

\* What the script does for every page count: start and end are the floors
\* of 11% and 15% of total, and the file ends up with the pages at indices
\* start .. end that exist. With at least one page these are all of
\* start .. end (C5 as stated; for 100 pages the indices 11 .. 15); with no
\* page start = end = 0, index 0 does not exist and the file is left empty.
SliceOfExistingPages ==
  (config.kind = "ok" /\ Ended) =>
    /\ total = Len(all_pages)
    /\ IsFloorOfPercent(start, total, 11)
    /\ IsFloorOfPercent(end, total, 15)
    /\ pages_to_fill.exists
    /\ pages_to_fill.content = LinesFor(start, Min(end, total - 1))
    /\ total >= 1 =>
         /\ pc = "done"
         /\ Len(pages_to_fill.content) = end - start + 1
         /\ pages_to_fill.content = LinesFor(start, end)
    /\ total = 0 => pages_to_fill.content = <<>>
    /\ total = 100 =>
         /\ start = 11 /\ end = 15
         /\ pages_to_fill.content =
              [k \in 1..5 |->
                 <<"d", "o", "c", "s", "/", "p", "1">> \o <<DigitChars[k + 1]>> \o
                   <<".", "m", "d", "\n">>]

\* 100 pages: the five lines of pages 11 to 15 are written.
SliceOfHundred ==
  /\ pc = "done"
  /\ total = 100
  /\ Len(pages_to_fill.content) = 5

\* C6: for every page count the upper index is kept below total, so that
\* every index read is within 0 .. total - 1 and no run fails with IndexError.
C6_Guarded ==
  /\ exc.kind # "IndexError"
  /\ Ended => \A k \in start..(i - 1) : 0 <= k /\ k < total
====
